---- MODULE Spec2Model ----
(***************************************************************************)
(* The generation-and-rendering pipeline of Bobby's TikZGUI                *)
(* (src/tikz_gui.py): the result queue and its polling dispatcher          *)
(* (check_results, update_ui_with_result), the submission path             *)
(* (submit_input, generate_diagram, process_response) and the compiler     *)
(* invoker (render_tikz, render_tikz_async).                               *)
(*                                                                         *)
(* Threads: thread 0 is the interactive (Tk mainloop) thread; threads      *)
(* 1, 2, ... are the threading.Thread objects render_tikz_async starts.    *)
(* A handler of the interactive thread runs without interruption by other  *)
(* handlers; it is split only at its blocking external calls (the          *)
(* completion-service call, the pdflatex subprocess, the pdf conversion),  *)
(* where the other threads run.                                            *)
(*                                                                         *)
(* Text is modelled as Python str: a sequence of one-character strings.    *)
(***************************************************************************)
EXTENDS Integers, Sequences, FiniteSets, TLC

(***************************************************************************)
(* Bounds of the model.                                                    *)
(***************************************************************************)
\* user and generation events: accepted submissions, results placed on
\* result_queue, key releases in the code editor
MaxJobs == 2

(***************************************************************************)
(* String literals of the source.                                          *)
(***************************************************************************)
\* the character U+0060 (a TLA+ string cannot hold it)
Backtick == "backtick"
\* the text Describe the diagram you want to create...
PLACEHOLDER ==
    <<"D","e","s","c","r","i","b","e"," ","t","h","e"," ","d","i","a","g","r","a","m"," ","y",
      "o","u"," ","w","a","n","t"," ","t","o"," ","c","r","e","a","t","e",".",".",".">>
\* the text Welcome! Describe the diagram you want to create.
WELCOME ==
    <<"W","e","l","c","o","m","e","!"," ","D","e","s","c","r","i","b","e"," ","t","h","e"," ",
      "d","i","a","g","r","a","m"," ","y","o","u"," ","w","a","n","t"," ","t","o"," ","c","r",
      "e","a","t","e",".">>
\* the text (backtick)(backtick)(backtick)tikz
FENCE_TIKZ ==
    <<Backtick,Backtick,Backtick,"t","i","k","z">>
\* the text (backtick)(backtick)(backtick)
FENCE ==
    <<Backtick,Backtick,Backtick>>
\* the text \\begin{tikzpicture}
BEGIN_TIKZ ==
    <<"\\","b","e","g","i","n","{","t","i","k","z","p","i","c","t","u","r","e","}">>
\* the text \\end{tikzpicture}
END_TIKZ ==
    <<"\\","e","n","d","{","t","i","k","z","p","i","c","t","u","r","e","}">>
\* the text Undefined color
UNDEFINED_COLOR ==
    <<"U","n","d","e","f","i","n","e","d"," ","c","o","l","o","r">>
\* the text Illegal parameter
ILLEGAL_PARAMETER ==
    <<"I","l","l","e","g","a","l"," ","p","a","r","a","m","e","t","e","r">>
\* the text Error: Invalid color name used in diagram. Please use standard color names or RGB values.
INVALID_COLOR_MSG ==
    <<"E","r","r","o","r",":"," ","I","n","v","a","l","i","d"," ","c","o","l","o","r"," ","n",
      "a","m","e"," ","u","s","e","d"," ","i","n"," ","d","i","a","g","r","a","m","."," ","P",
      "l","e","a","s","e"," ","u","s","e"," ","s","t","a","n","d","a","r","d"," ","c","o","l",
      "o","r"," ","n","a","m","e","s"," ","o","r"," ","R","G","B"," ","v","a","l","u","e","s",
      ".">>
\* the text Error: Invalid TikZ parameters. Please check your node and path specifications.
INVALID_PARAM_MSG ==
    <<"E","r","r","o","r",":"," ","I","n","v","a","l","i","d"," ","T","i","k","Z"," ","p","a",
      "r","a","m","e","t","e","r","s","."," ","P","l","e","a","s","e"," ","c","h","e","c","k",
      " ","y","o","u","r"," ","n","o","d","e"," ","a","n","d"," ","p","a","t","h"," ","s","p",
      "e","c","i","f","i","c","a","t","i","o","n","s",".">>
\* the text Error generating diagram: 
ERR_GENERATING ==
    <<"E","r","r","o","r"," ","g","e","n","e","r","a","t","i","n","g"," ","d","i","a","g","r",
      "a","m",":"," ">>
\* the text Error rendering diagram: 
ERR_RENDERING ==
    <<"E","r","r","o","r"," ","r","e","n","d","e","r","i","n","g"," ","d","i","a","g","r","a",
      "m",":"," ">>
\* the text Error: 
ERR_PREFIX ==
    <<"E","r","r","o","r",":"," ">>
\* the text Error updating UI: 
ERR_UPDATING_UI ==
    <<"E","r","r","o","r"," ","u","p","d","a","t","i","n","g"," ","U","I",":"," ">>
\* the text Error processing response
ERR_PROCESSING ==
    <<"E","r","r","o","r"," ","p","r","o","c","e","s","s","i","n","g"," ","r","e","s","p","o",
      "n","s","e">>
\* the text \n\n
BLANK_LINE ==
    <<"\n","\n">>
\* the offset added to the find of the opening fence at line 794
TIKZ_FENCE_SKIP == 6
\* the offset added to the find of the closing fence at line 804
FENCE_SKIP == 3

(***************************************************************************)
(* Values the environment supplies: what the user types, what the          *)
(* completion service, pdflatex and pdf2image answer, and the texts of     *)
(* the exceptions they raise.                                              *)
(***************************************************************************)
\* the text timeout
API_ERROR ==
    <<"t","i","m","e","o","u","t">>
\* the text list index out of range
INDEX_ERROR ==
    <<"l","i","s","t"," ","i","n","d","e","x"," ","o","u","t"," ","o","f"," ","r","a","n","g",
      "e">>
\* the text (quote)tikz_code(quote)
KEY_ERROR ==
    <<"'","t","i","k","z","_","c","o","d","e","'">>
\* the text argument of type (quote)NoneType(quote) is not iterable
TYPE_ERROR ==
    <<"a","r","g","u","m","e","n","t"," ","o","f"," ","t","y","p","e"," ","'","N","o","n","e",
      "T","y","p","e","'"," ","i","s"," ","n","o","t"," ","i","t","e","r","a","b","l","e">>
\* the text Unable to get page count.
PDF_ERROR ==
    <<"U","n","a","b","l","e"," ","t","o"," ","g","e","t"," ","p","a","g","e"," ","c","o","u",
      "n","t",".">>
\* the text ! Undefined color x.
STDOUT_COLOR ==
    <<"!"," ","U","n","d","e","f","i","n","e","d"," ","c","o","l","o","r"," ","x",".">>
\* the text ! Illegal parameter number.
STDOUT_PARAM ==
    <<"!"," ","I","l","l","e","g","a","l"," ","p","a","r","a","m","e","t","e","r"," ","n","u",
      "m","b","e","r",".">>
\* the text ! Illegal parameter; Undefined color
STDOUT_BOTH ==
    <<"!"," ","I","l","l","e","g","a","l"," ","p","a","r","a","m","e","t","e","r",";"," ","U",
      "n","d","e","f","i","n","e","d"," ","c","o","l","o","r">>
\* the text ! Missing $
STDOUT_OTHER ==
    <<"!"," ","M","i","s","s","i","n","g"," ","$">>
\* the text draw
INPUT_A ==
    <<"d","r","a","w">>
\* the text  draw 
INPUT_PADDED ==
    <<" ","d","r","a","w"," ">>
\* the text  
INPUT_BLANK ==
    <<" ">>
\* the text A\n(backtick)(backtick)(backtick)tikz\nX\n(backtick)(backtick)(backtick)\nB
CONTENT_FENCED ==
    <<"A","\n",Backtick,Backtick,Backtick,"t","i","k","z","\n","X","\n",Backtick,Backtick,
      Backtick,"\n","B">>
\* the text hi
CONTENT_PLAIN ==
    <<"h","i">>
\* the text \\begin{tikzpicture}\\end{tikzpicture}
CODE_PICTURE ==
    <<"\\","b","e","g","i","n","{","t","i","k","z","p","i","c","t","u","r","e","}","\\","e","n",
      "d","{","t","i","k","z","p","i","c","t","u","r","e","}">>
\* the text y
CODE_BARE ==
    <<"y">>
\* the text boom
QUEUE_ERROR ==
    <<"b","o","o","m">>
\* the text (backtick)(backtick)(backtick)tikz\nX\n(backtick)(backtick)(backtick)
CONTENT_BLOCK_ONLY ==
    <<Backtick,Backtick,Backtick,"t","i","k","z","\n","X","\n",Backtick,Backtick,Backtick>>
\* the text A\n(backtick)(backtick)(backtick)\nX\n(backtick)(backtick)(backtick)\nB
CONTENT_UNTAGGED ==
    <<"A","\n",Backtick,Backtick,Backtick,"\n","X","\n",Backtick,Backtick,Backtick,"\n","B">>
\* the text  \n
CONTENT_SPACES ==
    <<" ","\n">>
\* the text (backtick)(backtick)(backtick)tikz\n\\begin{tikzpicture}x\n(backtick)(backtick)(backtick)
CONTENT_NO_END ==
    <<Backtick,Backtick,Backtick,"t","i","k","z","\n","\\","b","e","g","i","n","{","t","i","k",
      "z","p","i","c","t","u","r","e","}","x","\n",Backtick,Backtick,Backtick>>
\* the text (backtick)(backtick)(backtick)tikz\n\\end{tikzpicture}\\begin{tikzpicture}\\end{tikzpicture}\n(backtick)(backtick)(backtick)
CONTENT_END_FIRST ==
    <<Backtick,Backtick,Backtick,"t","i","k","z","\n","\\","e","n","d","{","t","i","k","z","p",
      "i","c","t","u","r","e","}","\\","b","e","g","i","n","{","t","i","k","z","p","i","c","t",
      "u","r","e","}","\\","e","n","d","{","t","i","k","z","p","i","c","t","u","r","e","}","\n",
      Backtick,Backtick,Backtick>>

(***************************************************************************)
(* The str operations of Python, on sequences of characters.                    *)
(***************************************************************************)
Min(a, b) == IF a <= b THEN a ELSE b

Max(a, b) == IF a >= b THEN a ELSE b

\* s[a:b]: negative indices count from the end, both are clamped to the string
PySlice(s, a, b) ==
    LET n  == Len(s)
        lo == IF a < 0 THEN Max(a + n, 0) ELSE Min(a, n)
        hi == IF b < 0 THEN Max(b + n, 0) ELSE Min(b, n)
    IN  IF lo >= hi THEN <<>> ELSE SubSeq(s, lo + 1, hi)

\* s[i:i+len(sub)] == sub, i counted from 0
PyMatchAt(s, sub, i) ==
    /\ i >= 0
    /\ i + Len(sub) <= Len(s)
    /\ SubSeq(s, i + 1, i + Len(sub)) = sub

\* s.find(sub, start): the lowest index >= start where sub occurs, else -1
PyFind(s, sub, start) ==
    LET hits == {i \in start..(Len(s) - Len(sub)) : PyMatchAt(s, sub, i)}
    IN  IF hits = {} THEN -1 ELSE CHOOSE i \in hits : \A j \in hits : i <= j

\* sub in s
PyContains(s, sub) == PyFind(s, sub, 0) # -1

Whitespace == {" ", "\n", "\t", "\r"}

\* s.strip()
PyStrip(s) ==
    LET keep == {i \in 1..Len(s) : s[i] \notin Whitespace}
    IN  IF keep = {} THEN <<>>
        ELSE SubSeq(s, CHOOSE i \in keep : \A j \in keep : i <= j,
                       CHOOSE i \in keep : \A j \in keep : i >= j)

(***************************************************************************)
(* The value sets of the environment.                                           *)
(***************************************************************************)
\* the text of the entry widget when <Return> is pressed
Inputs == {<<>>, INPUT_BLANK, PLACEHOLDER, INPUT_A, INPUT_PADDED}

\* the completion call returns a response (response.choices[i].message.content)
\* or raises
ApiOutcomes ==
    {[raised |-> TRUE, exc |-> API_ERROR, choices |-> <<>>]}
    \cup {[raised |-> FALSE, exc |-> <<>>, choices |-> c] :
             c \in {<<>>, <<CONTENT_FENCED>>, <<CONTENT_PLAIN>>, << <<>> >>,
                    <<CONTENT_BLOCK_ONLY>>, <<CONTENT_UNTAGGED>>, <<CONTENT_SPACES>>,
                    <<CONTENT_NO_END>>, <<CONTENT_END_FIRST>>}}

NoOutcome == [raised |-> FALSE, exc |-> <<>>, choices |-> <<>>]

Stdouts == {STDOUT_COLOR, STDOUT_PARAM, STDOUT_BOTH, STDOUT_OTHER}

\* the CompletedProcess of subprocess.run: returncode and captured stdout
ProcessResults ==
    {[returncode |-> 1, stdout |-> s] : s \in Stdouts}
    \cup {[returncode |-> 0, stdout |-> STDOUT_COLOR]}

NoProcess == [returncode |-> -1, stdout |-> <<>>]

\* convert_from_path: raises (no or unreadable diagram.pdf) or returns the pages
ConvertResults ==
    {[raised |-> TRUE, exc |-> PDF_ERROR, pages |-> 0],
     [raised |-> FALSE, exc |-> <<>>, pages |-> 0],
     [raised |-> FALSE, exc |-> <<>>, pages |-> 1]}

\* Python values placed on result_queue: a dict or None
PyNone == [type |-> "NoneType"]

PyDict(items) == [type |-> "dict", items |-> items]

TikzCodes == {CODE_PICTURE, CODE_BARE}

QueueEntries ==
    {PyDict([error |-> QUEUE_ERROR])}
    \cup {PyDict([tikz_code |-> c]) : c \in TikzCodes}
    \cup {PyNone}

(***************************************************************************)
(* State.                                                                  *)
(***************************************************************************)
VARIABLES
    messages,       \* chat_frame.messages: the bubbles, as [text, is_user]
    current_code,   \* TikZGUI.current_code
    show_chat,      \* TikZGUI.show_chat
    code_text,      \* the text of code_view
    running,        \* loading_indicator.running
    canvas,         \* the images on self.canvas (each named by the fragment compiled)
    result_queue,   \* TikZGUI.result_queue, oldest first
    pending_polls,  \* check_results callbacks registered with root.after, not yet run
    poll_epoch,     \* parity of the number of polls run so far
    dispatched,     \* the results handed to update_ui_with_result, in order
    ui_pc,          \* where the interactive thread is
    completion,     \* what the last completion call returned or raised
    frames,         \* per thread, the locals of its render_tikz invocation
    temp_dirs,      \* the directories made by tempfile.mkdtemp that still exist
    dirs_made,      \* how many directories mkdtemp has made
    uncaught,       \* exceptions that left a callback or the target of a thread uncaught
    n_jobs,         \* accepted submissions, queue entries and key releases so far
    update_timer,   \* CodeView.update_timer: "None", or "id" once a timer was started
    preview_timers, \* update_preview callbacks registered with after, not yet run
    spinner_pending \* draw_spinner callbacks registered with canvas.after, not yet run

vars ==
    <<messages, current_code, show_chat, code_text, running, canvas, result_queue,
      pending_polls, poll_epoch, dispatched, ui_pc, completion, frames, temp_dirs,
      dirs_made, uncaught, n_jobs, update_timer, preview_timers, spinner_pending>>

\* the timers of the code editor and of the loading indicator
timer_vars == <<update_timer, preview_timers, spinner_pending>>

\* the interactive thread
MainThread == 0

Threads == DOMAIN frames

WorkerThreads == Threads \ {MainThread}

NoFrame ==
    [pc |-> "none", tikz_code |-> <<>>, tikz_content |-> <<>>, temp_dir |-> 0,
     process |-> NoProcess, pages |-> -1, exc |-> <<>>, ret |-> "none",
     loading_stopped |-> FALSE]

\* ChatFrame.add_message
add_message(msgs, text, is_user) == Append(msgs, [text |-> text, is_user |-> is_user])

Init ==
    /\ messages = add_message(<<>>, WELCOME, FALSE)
    /\ current_code = <<>>
    /\ show_chat = TRUE
    /\ code_text = <<>>
    /\ running = FALSE
    /\ canvas = <<>>
    /\ result_queue = <<>>
    /\ pending_polls = 1
    /\ poll_epoch = 0
    /\ dispatched = <<>>
    /\ ui_pc = "idle"
    /\ completion = NoOutcome
    /\ frames = [t \in {MainThread} |-> NoFrame]
    /\ temp_dirs = {}
    /\ dirs_made = 0
    /\ uncaught = {}
    /\ n_jobs = 0
    /\ update_timer = "None"
    /\ preview_timers = 0
    /\ spinner_pending = 0

(***************************************************************************)
(* LoadingIndicator.                                                       *)
(***************************************************************************)
\* LoadingIndicator.start: sets running unless it is set
loading_start(r) == IF ~r THEN TRUE ELSE r

\* a stop that leaves the flag as it is
loading_stop_noop(r) == r

\* LoadingIndicator.stop
loading_stop(r) == FALSE

\* the callbacks pending after start (lines 310-313): unless it is running, it
\* calls draw_spinner, which registers itself with canvas.after (lines 293-295)
spinner_after_start(n, r) == IF ~r THEN n + 1 ELSE n

\* the callbacks pending after a run of draw_spinner (lines 293-295): it
\* registers itself again if the indicator is running
spinner_after_draw(n, r) == IF r THEN n + 1 ELSE n

(***************************************************************************)
(* render_tikz.                                                            *)
(***************************************************************************)
\* lines 624-629: the part of tikz_code written into the document template
tikz_content_of(tikz_code) ==
    IF PyContains(tikz_code, BEGIN_TIKZ)
    THEN LET start == PyFind(tikz_code, BEGIN_TIKZ, 0)
             end   == PyFind(tikz_code, END_TIKZ, 0) + Len(END_TIKZ)
         IN  PySlice(tikz_code, start, end)
    ELSE tikz_code

\* the two substring tests in the other order
error_msg_of_param_first(stdout) ==
    IF PyContains(stdout, ILLEGAL_PARAMETER) THEN INVALID_PARAM_MSG
    ELSE IF PyContains(stdout, UNDEFINED_COLOR) THEN INVALID_COLOR_MSG
    ELSE stdout

\* lines 664-671: the text of the exception raised for a non-zero exit code
error_msg_of(stdout) ==
    IF PyContains(stdout, UNDEFINED_COLOR) THEN INVALID_COLOR_MSG
    ELSE IF PyContains(stdout, ILLEGAL_PARAMETER) THEN INVALID_PARAM_MSG
    ELSE stdout

\* lines 620-662, up to the blocking subprocess.run: the frame of a render_tikz
\* invocation that has made its directory, written diagram.tex and started pdflatex
render_frame(tikz_code, dir) ==
    [NoFrame EXCEPT !.pc = "pdflatex", !.tikz_code = tikz_code,
                    !.tikz_content = tikz_content_of(tikz_code), !.temp_dir = dir]

\* shutil.rmtree(temp_dir) at line 696
rmtree(dirs, dir) == dirs \ {dir}

\* a caller that stores the fragment whatever render_tikz returned
render_return_always_sets(t, f) ==
    IF t = MainThread
    THEN /\ current_code' = f.tikz_code
         /\ running' = loading_stop(running)
         /\ ui_pc' = "idle"
         /\ frames' = [frames EXCEPT ![t] = [f EXCEPT !.loading_stopped = TRUE]]
    ELSE /\ frames' = [frames EXCEPT ![t] = f]
         /\ UNCHANGED <<current_code, running, ui_pc>>

\* a render thread that stores its fragment as the current one when it succeeds
render_return_any_thread(t, f) ==
    IF t = MainThread
    THEN /\ current_code' = IF f.ret = "True" THEN f.tikz_code ELSE current_code
         /\ running' = loading_stop(running)
         /\ ui_pc' = "idle"
         /\ frames' = [frames EXCEPT ![t] = [f EXCEPT !.loading_stopped = TRUE]]
    ELSE /\ frames' = [frames EXCEPT ![t] = f]
         /\ current_code' = IF f.ret = "True" THEN f.tikz_code ELSE current_code
         /\ UNCHANGED <<running, ui_pc>>

\* what follows the return of render_tikz in its caller: process_response (lines
\* 813-817) on the interactive thread, nothing in a Thread started by
\* render_tikz_async
render_return(t, f) ==
    IF t = MainThread
    THEN /\ current_code' = IF f.ret = "True" THEN f.tikz_code ELSE current_code
         /\ running' = loading_stop(running)
         /\ ui_pc' = "idle"
         /\ frames' = [frames EXCEPT ![t] = [f EXCEPT !.loading_stopped = TRUE]]
    ELSE /\ frames' = [frames EXCEPT ![t] = f]
         /\ UNCHANGED <<current_code, running, ui_pc>>

\* an except clause that logs and returns False without add_message
render_except_silent(t, f, e) ==
    /\ render_return(t, [f EXCEPT !.pc = "done", !.exc = e, !.ret = "False"])
    /\ UNCHANGED <<messages, canvas, temp_dirs>>

\* lines 699-702: the except clause
render_except(t, f, e) ==
    /\ messages' = add_message(messages, ERR_RENDERING \o e, FALSE)
    /\ render_return(t, [f EXCEPT !.pc = "done", !.exc = e, !.ret = "False"])
    /\ UNCHANGED <<canvas, temp_dirs>>

\* a render that discards its image when a render started later has shown its own
render_display_unless_superseded(t, f) ==
    /\ canvas' = IF \E u \in Threads : u > t /\ frames[u].ret = "True"
                 THEN canvas ELSE <<f.tikz_content>>
    /\ temp_dirs' = rmtree(temp_dirs, f.temp_dir)
    /\ render_return(t, [f EXCEPT !.pc = "done", !.ret = "True"])
    /\ UNCHANGED messages

\* lines 685-697: the image is put on the canvas, the directory removed, True returned
render_display(t, f) ==
    /\ canvas' = <<f.tikz_content>>
    /\ temp_dirs' = rmtree(temp_dirs, f.temp_dir)
    /\ render_return(t, [f EXCEPT !.pc = "done", !.ret = "True"])
    /\ UNCHANGED messages

\* a Thread started by render_tikz_async begins to run render_tikz
render_begin(t) ==
    /\ t # MainThread
    /\ frames[t].pc = "start"
    /\ frames' = [frames EXCEPT ![t] = render_frame(frames[t].tikz_code, dirs_made + 1)]
    /\ dirs_made' = dirs_made + 1
    /\ temp_dirs' = temp_dirs \cup {dirs_made + 1}
    /\ UNCHANGED <<messages, current_code, show_chat, code_text, running, canvas,
                   result_queue, pending_polls, poll_epoch, dispatched, ui_pc,
                   completion, uncaught, n_jobs>>
    /\ UNCHANGED timer_vars

\* subprocess.run returns in thread t (lines 657-671)
pdflatex_returns(t) ==
    /\ frames[t].pc = "pdflatex"
    /\ \E p \in ProcessResults :
          LET f == [frames[t] EXCEPT !.process = p]
          IN  IF p.returncode # 0
              THEN render_except(t, f, error_msg_of(p.stdout))
              ELSE /\ frames' = [frames EXCEPT ![t] = [f EXCEPT !.pc = "convert"]]
                   /\ UNCHANGED <<messages, current_code, running, canvas, ui_pc,
                                  temp_dirs>>
    /\ UNCHANGED <<show_chat, code_text, result_queue, pending_polls, poll_epoch,
                   dispatched, completion, dirs_made, uncaught, n_jobs>>
    /\ UNCHANGED timer_vars

\* convert_from_path returns or raises in thread t (lines 674-697)
convert_returns(t) ==
    /\ frames[t].pc = "convert"
    /\ \E c \in ConvertResults :
          IF c.raised
          THEN render_except(t, frames[t], c.exc)
          ELSE IF c.pages = 0
          THEN \* pages[0] raises IndexError
               render_except(t, [frames[t] EXCEPT !.pages = c.pages], INDEX_ERROR)
          ELSE render_display(t, [frames[t] EXCEPT !.pages = c.pages])
    /\ UNCHANGED <<show_chat, code_text, result_queue, pending_polls, poll_epoch,
                   dispatched, completion, dirs_made, uncaught, n_jobs>>
    /\ UNCHANGED timer_vars

\* a Thread started without the fragment
render_tikz_async_no_args(fs, tikz_code) ==
    LET t == Cardinality(DOMAIN fs)
    IN  [u \in DOMAIN fs \cup {t} |->
            IF u = t THEN [NoFrame EXCEPT !.pc = "start"] ELSE fs[u]]

\* render_tikz_async: one more Thread, not yet running
render_tikz_async(fs, tikz_code) ==
    LET t == Cardinality(DOMAIN fs)
    IN  [u \in DOMAIN fs \cup {t} |->
            IF u = t THEN [NoFrame EXCEPT !.pc = "start", !.tikz_code = tikz_code]
            ELSE fs[u]]

(***************************************************************************)
(* The submission path: submit_input, process_input_async,                 *)
(* generate_diagram, process_response.                                     *)
(***************************************************************************)
\* lines 792-796: the text between the fences; None and "" are both <<>> here
\* (the code only tests the truth of the value)
fenced_code(content) ==
    IF PyContains(content, FENCE_TIKZ)
    THEN LET start == PyFind(content, FENCE_TIKZ, 0) + TIKZ_FENCE_SKIP
             end   == PyFind(content, FENCE, start)
         IN  PyStrip(PySlice(content, start, end))
    ELSE <<>>

\* the whole response is shown, the block included
text_response_of_raw(content) == content

\* lines 799-806: the text shown in the chat
text_response_of(content) ==
    IF fenced_code(content) # <<>>
    THEN LET start     == PyFind(content, FENCE_TIKZ, 0) + TIKZ_FENCE_SKIP
             pre_code  == PyStrip(PySlice(content, 0, PyFind(content, FENCE_TIKZ, 0)))
             post_code == PyStrip(PySlice(content,
                                          PyFind(content, FENCE, start) + FENCE_SKIP,
                                          Len(content)))
         IN  PyStrip(pre_code \o BLANK_LINE \o post_code)
    ELSE content

\* process_response (lines 785-822), up to the return or to the blocking
\* subprocess.run inside its render_tikz call
process_response(response) ==
    IF Len(response.choices) = 0
    THEN \* response.choices[0] raises IndexError: lines 819-822
         /\ messages' = add_message(messages, ERR_PROCESSING, FALSE)
         /\ running' = loading_stop(running)
         /\ ui_pc' = "idle"
         /\ UNCHANGED <<frames, temp_dirs, dirs_made>>
    ELSE LET content       == response.choices[1]
             tikz_code     == fenced_code(content)
             text_response == text_response_of(content)
         IN  /\ messages' = IF text_response # <<>>
                            THEN add_message(messages, text_response, FALSE)
                            ELSE messages
             /\ IF tikz_code # <<>>
                THEN /\ frames' = [frames EXCEPT
                                     ![MainThread] = render_frame(tikz_code, dirs_made + 1)]
                     /\ dirs_made' = dirs_made + 1
                     /\ temp_dirs' = temp_dirs \cup {dirs_made + 1}
                     /\ ui_pc' = "render_tikz"
                     /\ UNCHANGED running
                ELSE /\ running' = loading_stop(running)
                     /\ ui_pc' = "idle"
                     /\ UNCHANGED <<frames, temp_dirs, dirs_made>>

\* a submit_input without the test for the placeholder text
submit_input_of_unguarded(raw) ==
    LET text == PyStrip(raw)
    IN  IF running \/ text = <<>>
        THEN UNCHANGED vars
        ELSE /\ n_jobs < MaxJobs
             /\ n_jobs' = n_jobs + 1
             /\ messages' = add_message(messages, text, TRUE)
             /\ running' = loading_start(loading_start(running))
             /\ spinner_pending' =
                    spinner_after_start(spinner_after_start(spinner_pending, running),
                                        loading_start(running))
             /\ ui_pc' = "chat_completion"
             /\ completion' = NoOutcome
             /\ UNCHANGED <<current_code, show_chat, code_text, canvas,
                            result_queue, pending_polls, poll_epoch, dispatched,
                            frames, temp_dirs, dirs_made, uncaught, update_timer,
                            preview_timers>>

\* submit_input (lines 541-555) with raw in the entry, with process_input_async and
\* generate_diagram (lines 557-585) up to the blocking completion call
submit_input_of(raw) ==
    LET text == PyStrip(raw)
    IN  IF running \/ text = <<>> \/ text = PLACEHOLDER
        THEN UNCHANGED vars
        ELSE /\ n_jobs < MaxJobs
             /\ n_jobs' = n_jobs + 1
             /\ messages' = add_message(messages, text, TRUE)
             /\ running' = loading_start(loading_start(running))
             /\ spinner_pending' =
                    spinner_after_start(spinner_after_start(spinner_pending, running),
                                        loading_start(running))
             /\ ui_pc' = "chat_completion"
             /\ completion' = NoOutcome
             /\ UNCHANGED <<current_code, show_chat, code_text, canvas,
                            result_queue, pending_polls, poll_epoch, dispatched,
                            frames, temp_dirs, dirs_made, uncaught, update_timer,
                            preview_timers>>

\* <Return> in the entry, or the send button
submit_input ==
    /\ ui_pc = "idle"
    /\ \E raw \in Inputs : submit_input_of(raw)

\* an except clause that only logs
generate_diagram_except_logs(e) ==
    /\ ui_pc' = "idle"
    /\ UNCHANGED <<messages, running, frames, temp_dirs, dirs_made>>

\* the except clause of generate_diagram (lines 590-593)
generate_diagram_except(e) ==
    /\ messages' = add_message(messages, ERR_GENERATING \o e, FALSE)
    /\ running' = loading_stop(running)
    /\ ui_pc' = "idle"
    /\ UNCHANGED <<frames, temp_dirs, dirs_made>>

\* self.client.chat_completion(messages) returns or raises (line 585), and
\* generate_diagram goes on: process_response, or its except clause (lines 590-593)
chat_completion_returns ==
    /\ ui_pc = "chat_completion"
    /\ \E o \in ApiOutcomes :
          /\ completion' = o
          /\ IF o.raised
             THEN generate_diagram_except(o.exc)
             ELSE process_response(o)
    /\ UNCHANGED <<current_code, show_chat, code_text, canvas, result_queue,
                   pending_polls, poll_epoch, dispatched, uncaught, n_jobs>>
    /\ UNCHANGED timer_vars

(***************************************************************************)
(* The result dispatcher: check_results and update_ui_with_result.         *)
(***************************************************************************)
\* the part of the state update_ui_with_result works on
Gui ==
    [messages |-> messages, current_code |-> current_code, code_text |-> code_text,
     running |-> running, frames |-> frames]

\* a Failure branch that also forgets the current fragment
on_failure_resets(g, error) ==
    [g EXCEPT !.messages = add_message(@, ERR_PREFIX \o error, FALSE),
              !.running = loading_stop(@),
              !.current_code = <<>>]

\* lines 745-747: the branch of update_ui_with_result for a result with an "error" key
on_failure(g, error) ==
    [g EXCEPT !.messages = add_message(@, ERR_PREFIX \o error, FALSE),
              !.running = loading_stop(@)]

\* update_ui_with_result (lines 743-770): the state after it, and whether it raised
update_ui_with_result(g, result) ==
    IF result.type # "dict"
    THEN \* line 744: "error" in result raises TypeError, outside the try
         [g |-> g, raised |-> TRUE, exc |-> TYPE_ERROR]
    ELSE IF "error" \in DOMAIN result.items
    THEN [g |-> on_failure(g, result.items.error), raised |-> FALSE, exc |-> <<>>]
    ELSE IF "tikz_code" \notin DOMAIN result.items
    THEN \* KeyError, caught at line 765; the finally clause stops the indicator
         [g |-> [g EXCEPT !.messages = add_message(@, ERR_UPDATING_UI \o KEY_ERROR, FALSE),
                          !.running = loading_stop(@)],
          raised |-> FALSE, exc |-> <<>>]
    ELSE LET tikz_code == result.items.tikz_code
             started   == render_tikz_async(g.frames, tikz_code)
             t         == Cardinality(DOMAIN g.frames)
         IN  [g |-> [g EXCEPT
                       !.current_code = tikz_code,
                       !.code_text = IF ~show_chat THEN tikz_code ELSE @,
                       !.messages = IF show_chat THEN add_message(@, tikz_code, FALSE)
                                    ELSE @,
                       !.frames = [started EXCEPT ![t].loading_stopped = TRUE],
                       !.running = loading_stop(@)],
              raised |-> FALSE, exc |-> <<>>]

\* an if in place of the while: at most one entry is popped in a poll
drain_one(g, q, done) ==
    IF q = <<>>
    THEN [g |-> g, queue |-> q, handed |-> done, raised |-> FALSE, exc |-> <<>>]
    ELSE LET r == update_ui_with_result(g, Head(q))
         IN  [g |-> r.g, queue |-> Tail(q), handed |-> Append(done, Head(q)),
              raised |-> r.raised, exc |-> r.exc]

\* the loop of check_results (lines 774-778): get_nowait until queue.Empty, or
\* until update_ui_with_result raises
RECURSIVE drain(_, _, _)
drain(g, q, done) ==
    IF q = <<>>
    THEN [g |-> g, queue |-> q, handed |-> done, raised |-> FALSE, exc |-> <<>>]
    ELSE LET r == update_ui_with_result(g, Head(q))
         IN  IF r.raised
             THEN [g |-> r.g, queue |-> Tail(q), handed |-> Append(done, Head(q)),
                   raised |-> TRUE, exc |-> r.exc]
             ELSE drain(r.g, Tail(q), Append(done, Head(q)))

\* a poll that registers two successors
after_poll_twice(n, raised) == n + 2

\* root.after put after the try statement instead of in its finally clause
after_poll_unless_raised(n, raised) == IF raised THEN n ELSE n + 1

\* the finally clause of check_results (line 780): root.after(100, self.check_results)
\* is run however the try block ended
after_poll(n, raised) == n + 1

\* check_results (lines 772-780), run by the Tk timer
check_results ==
    /\ ui_pc = "idle"
    /\ pending_polls > 0
    /\ LET d == drain(Gui, result_queue, <<>>)
       IN  /\ messages' = d.g.messages
           /\ current_code' = d.g.current_code
           /\ code_text' = d.g.code_text
           /\ running' = d.g.running
           /\ frames' = d.g.frames
           /\ result_queue' = d.queue
           /\ dispatched' = dispatched \o d.handed
           /\ uncaught' = IF d.raised
                          THEN uncaught \cup {[thread |-> MainThread, exc |-> d.exc]}
                          ELSE uncaught
    /\ pending_polls' = after_poll(pending_polls - 1,
                                   drain(Gui, result_queue, <<>>).raised)
    /\ poll_epoch' = 1 - poll_epoch
    /\ UNCHANGED <<show_chat, canvas, ui_pc, completion, temp_dirs, dirs_made,
                   n_jobs>>
    /\ UNCHANGED timer_vars

\* a generation worker places its result on the queue (result_queue.put)
result_queue_put ==
    /\ n_jobs < MaxJobs
    /\ \E r \in QueueEntries : result_queue' = Append(result_queue, r)
    /\ n_jobs' = n_jobs + 1
    /\ UNCHANGED <<messages, current_code, show_chat, code_text, running, canvas,
                   pending_polls, poll_epoch, dispatched, ui_pc, completion, frames,
                   temp_dirs, dirs_made, uncaught>>
    /\ UNCHANGED timer_vars

\* toggle_view (lines 487-505), called by the segmented button with its value
toggle_view ==
    /\ ui_pc = "idle"
    /\ \E value \in {"Chat", "Code"} :
          /\ show_chat' = (value = "Chat")
          /\ code_text' = IF value # "Chat" /\ current_code # <<>>
                          THEN current_code ELSE code_text
    /\ UNCHANGED <<messages, current_code, running, canvas, result_queue,
                   pending_polls, poll_epoch, dispatched, ui_pc, completion, frames,
                   temp_dirs, dirs_made, uncaught, n_jobs>>
    /\ UNCHANGED timer_vars

(***************************************************************************)
(* The code editor (CodeView) and the redraw timer of LoadingIndicator.    *)
(***************************************************************************)
\* the key the user releases in the editor
EDIT_KEY == <<"%">>

\* hasattr(self, "parent_gui") at line 242: set_parent_gui (lines 245-246) is the
\* only assignment and nothing calls it
has_parent_gui == FALSE

\* on_edit (lines 226-235), bound to <KeyRelease> of the editor, which is on
\* screen in the code view only
on_edit ==
    /\ ui_pc = "idle"
    /\ ~show_chat
    /\ n_jobs < MaxJobs
    /\ n_jobs' = n_jobs + 1
    /\ code_text' = code_text \o EDIT_KEY
    /\ preview_timers' =
          (IF update_timer # "None" /\ preview_timers > 0
           THEN preview_timers - 1 ELSE preview_timers) + 1
    /\ update_timer' = "id"
    /\ UNCHANGED <<messages, current_code, show_chat, running, canvas, result_queue,
                   pending_polls, poll_epoch, dispatched, ui_pc, completion, frames,
                   temp_dirs, dirs_made, uncaught, spinner_pending>>

\* update_preview (lines 237-243), run by the timer on_edit started
update_preview ==
    /\ ui_pc = "idle"
    /\ preview_timers > 0
    /\ preview_timers' = preview_timers - 1
    /\ frames' = IF has_parent_gui THEN render_tikz_async(frames, code_text) ELSE frames
    /\ UNCHANGED <<messages, current_code, show_chat, code_text, running, canvas,
                   result_queue, pending_polls, poll_epoch, dispatched, ui_pc,
                   completion, temp_dirs, dirs_made, uncaught, n_jobs, update_timer,
                   spinner_pending>>

\* draw_spinner (lines 262-295), run by the timer it registered
draw_spinner ==
    /\ ui_pc = "idle"
    /\ spinner_pending > 0
    /\ spinner_pending' = spinner_after_draw(spinner_pending - 1, running)
    /\ UNCHANGED <<messages, current_code, show_chat, code_text, running, canvas,
                   result_queue, pending_polls, poll_epoch, dispatched, ui_pc,
                   completion, frames, temp_dirs, dirs_made, uncaught, n_jobs,
                   update_timer, preview_timers>>

(***************************************************************************)
(* The specifications.                                                     *)
(***************************************************************************)
Next ==
    \/ submit_input
    \/ chat_completion_returns
    \/ check_results
    \/ result_queue_put
    \/ toggle_view
    \/ on_edit
    \/ update_preview
    \/ \E t \in Threads : render_begin(t)
    \/ \E t \in Threads : pdflatex_returns(t)
    \/ \E t \in Threads : convert_returns(t)

Spec == Init /\ [][Next]_vars

\* The Tk mainloop runs a due timer and goes on with a handler once its blocking
\* call returns; the scheduler runs every started thread; the external calls return.
Fairness ==
    /\ WF_vars(check_results)
    /\ WF_vars(chat_completion_returns)
    /\ WF_vars(\E t \in Threads : render_begin(t))
    /\ WF_vars(\E t \in Threads : pdflatex_returns(t))
    /\ WF_vars(\E t \in Threads : convert_returns(t))

FairSpec == Spec /\ Fairness

\* Spec leaves the redraw timer of the loading indicator unfired: draw_spinner
\* changes spinner_pending only, which nothing else reads. SpinnerSpec fires it.
SpinnerNext == Next \/ draw_spinner

SpinnerSpec == Init /\ [][SpinnerNext]_vars

(***************************************************************************)
(* Properties.                                                             *)
(***************************************************************************)
\* a step that runs check_results: only it changes poll_epoch
Polled == poll_epoch' # poll_epoch

\* a step of thread t inside render_tikz: only the thread itself changes its frame
RenderStep(t) == frames'[t] # frames[t]

\* the bubble add_message(text, is_user=False) appends
AssistantBubble(text) == [text |-> text, is_user |-> FALSE]

\* C1: check_results reschedules itself on every exit path (items drained, queue
\* empty, update_ui_with_result raised): a poll is pending in every reachable
\* state, and every pending poll is eventually run.
C1_PollingNeverDies ==
    /\ [](pending_polls >= 1)
    /\ (poll_epoch = 0) ~> (poll_epoch = 1)
    /\ (poll_epoch = 1) ~> (poll_epoch = 0)

\* C1 witness: a poll has handed two entries over, update_ui_with_result raised
\* on one of them, and a poll is pending again.
C1_Witness ==
    /\ Len(dispatched) = 2
    /\ \E u \in uncaught : u.exc = TYPE_ERROR
    /\ pending_polls >= 1
    /\ poll_epoch = 1

C3_GenerationQueuesItsResult ==
    [][(ui_pc # "idle" /\ ui_pc' = "idle") =>
          /\ Len(result_queue') = Len(result_queue) + 1
          /\ UNCHANGED <<messages, canvas, current_code>>]_vars

\* C4: the interactive thread is never inside the completion-service call or the
\* compiler subprocess.
C4_InteractiveThreadNeverBlocks == ui_pc \notin {"chat_completion", "render_tikz"}

\* C5: a step of a render thread started by render_tikz_async changes neither the
\* canvas image nor the chat messages.
C5_WorkersLeavePresentationAlone ==
    [][\A t \in WorkerThreads : RenderStep(t) => UNCHANGED <<canvas, messages>>]_vars

\* C6: with no render in progress, no directory made by a render remains.
C6_NoWorkingDirectoryRemains ==
    (\A t \in Threads : frames[t].pc \in {"none", "start", "done"}) => temp_dirs = {}

\* C7: the loading indicator is stopped for a generation only once the outcome of
\* its render (image or error message) has been delivered.
C7_StopOnlyAfterRenderOutcome ==
    \A t \in Threads : frames[t].loading_stopped => frames[t].pc = "done"

\* C8: when pdflatex returns with a non-zero exit code, the error reported is the
\* invalid-color message if the captured text contains "Undefined color",
\* otherwise the invalid-parameter message if it contains "Illegal parameter",
\* otherwise the captured text; with exit code 0 nothing is reported.
C8_FailureClassification ==
    [][\A t \in Threads :
          (frames[t].pc = "pdflatex" /\ RenderStep(t)) =>
             LET p == frames'[t].process
                 reported ==
                     IF PyContains(p.stdout, UNDEFINED_COLOR) THEN INVALID_COLOR_MSG
                     ELSE IF PyContains(p.stdout, ILLEGAL_PARAMETER) THEN INVALID_PARAM_MSG
                     ELSE p.stdout
             IN  IF p.returncode # 0
                 THEN /\ messages' = Append(messages,
                                            AssistantBubble(ERR_RENDERING \o reported))
                      /\ frames'[t].ret = "False"
                 ELSE /\ messages' = messages
                      /\ frames'[t].ret = "none"]_vars

\* C8 witness: a failed compile whose output holds both phrases was reported as
\* the invalid-color error.
C8_Witness ==
    \E t \in Threads :
        /\ frames[t].process = [returncode |-> 1, stdout |-> STDOUT_BOTH]
        /\ frames[t].exc = INVALID_COLOR_MSG
        /\ messages[Len(messages)] = AssistantBubble(ERR_RENDERING \o INVALID_COLOR_MSG)

\* C9: when the completion call raises, generate_diagram catches it: nothing is
\* left uncaught, exactly one assistant message with the error is added, the
\* loading indicator is stopped and the handler returns.
C9_CompletionFailureCaught ==
    [][(ui_pc = "chat_completion" /\ completion'.raised) =>
          /\ messages' = Append(messages,
                                AssistantBubble(ERR_GENERATING \o completion'.exc))
          /\ ~running'
          /\ ui_pc' = "idle"
          /\ uncaught' = uncaught]_vars

\* C9 witness: a completion call has raised and the handler has returned.
C9_Witness ==
    /\ completion.raised
    /\ ui_pc = "idle"
    /\ ~running
    /\ messages[Len(messages)] = AssistantBubble(ERR_GENERATING \o API_ERROR)

\* C10: every render_tikz invocation that ends returns True or False and leaves
\* nothing uncaught; it returns True exactly when pdflatex exited with 0 and the
\* conversion gave a page, and then the image is on the canvas and no message is
\* added; when it returns False exactly one render error message is added and
\* the canvas is untouched.
C10_RenderAlwaysReturns ==
    [][\A t \in Threads :
          (frames[t].pc \in {"pdflatex", "convert"} /\ RenderStep(t)) =>
             LET f == frames'[t]
                 produced == f.process.returncode = 0 /\ f.pages >= 1
             IN  /\ uncaught' = uncaught
                 /\ f.pc \in {"convert", "done"}
                 /\ f.pc = "done" =>
                       /\ f.ret = (IF produced THEN "True" ELSE "False")
                       /\ f.ret = "True" =>
                             canvas' = <<f.tikz_content>> /\ messages' = messages
                       /\ f.ret = "False" =>
                             /\ messages' = Append(messages,
                                                   AssistantBubble(ERR_RENDERING \o f.exc))
                             /\ canvas' = canvas]_vars

\* C10 witness: one render has returned False after a conversion that gave no
\* page, with its error message in the chat, and one has returned True with its
\* image on the canvas.
C10_Witness ==
    /\ \E t \in Threads : frames[t].ret = "False" /\ frames[t].exc = INDEX_ERROR
    /\ \E t \in Threads : frames[t].ret = "True" /\ canvas = <<frames[t].tikz_content>>
    /\ \E m \in 1..Len(messages) : messages[m].text = ERR_RENDERING \o INDEX_ERROR

(***************************************************************************)
(* Responses with a fenced block, by their parts.                          *)
(***************************************************************************)
\* the text A\n
PROSE_A ==
    <<"A","\n">>
\* the text \nB
PROSE_B ==
    <<"\n","B">>
\* the text \nX\n
PAYLOAD_X ==
    <<"\n","X","\n">>
\* the text tikz
TAG_TIKZ ==
    <<"t","i","k","z">>

\* the prose in front of and behind a block
Proses == {<<>>, PROSE_A, PROSE_B}

\* the language tag after the opening fence: none, or tikz
Tags == {<<>>, TAG_TIKZ}

\* the response whose content is a block with prose around it
FencedResponse(pre, tag, payload, post) == <<pre \o FENCE \o tag \o payload \o FENCE \o post>>

\* a step in which the completion call returns a response
Responded == ui_pc = "chat_completion" /\ ~completion'.raised

\* the render_tikz invocation of thread t has written its document
Compiled(t) == frames[t].pc \in {"pdflatex", "convert", "done"}

\* C11: for a response with a well-formed fenced block (opening fence, optional
\* language tag, payload, closing fence) the fragment extracted and handed to
\* the render is the trimmed payload, with nothing of the fences or the tag,
\* whatever the prose around the block.
C11_ExtractionYieldsPayload ==
    [][Responded =>
          \A pre \in Proses, tag \in Tags, post \in Proses :
             completion'.choices = FencedResponse(pre, tag, PAYLOAD_X, post) =>
                /\ ui_pc' = "render_tikz"
                /\ frames'[MainThread].tikz_code = PyStrip(PAYLOAD_X)]_vars

\* C12: when the fragment holds the begin token and no end token, what is
\* compiled is the fragment from the begin token onward with the end token
\* appended.
C12_MissingEndIsAppended ==
    \A t \in Threads :
        LET code == frames[t].tikz_code
        IN  (/\ Compiled(t)
             /\ PyContains(code, BEGIN_TIKZ)
             /\ ~PyContains(code, END_TIKZ)) =>
               frames[t].tikz_content =
                   PySlice(code, PyFind(code, BEGIN_TIKZ, 0), Len(code)) \o END_TIKZ

\* C13: when the fragment holds a begin token and an end token after it, what
\* is compiled is the text from the first begin token through the first end
\* token after that begin token; an end token before the first begin token is
\* ignored.
C13_FirstBeginThroughFirstEndAfter ==
    \A t \in Threads :
        LET code  == frames[t].tikz_code
            start == PyFind(code, BEGIN_TIKZ, 0)
            end   == PyFind(code, END_TIKZ, Max(start, 0))
        IN  (Compiled(t) /\ start # -1 /\ end # -1) =>
               frames[t].tikz_content = PySlice(code, start, end + Len(END_TIKZ))

\* C14: every non-empty fragment written into the document template and
\* compiled holds both the begin and the end delimiter.
C14_CompiledFragmentHasBothDelimiters ==
    \A t \in Threads :
        (Compiled(t) /\ frames[t].tikz_content # <<>>) =>
            /\ PyContains(frames[t].tikz_content, BEGIN_TIKZ)
            /\ PyContains(frames[t].tikz_content, END_TIKZ)

\* C15: a response that is empty or all whitespace ends the generation with
\* exactly one assistant message, which is not the raw response; no render is
\* started and current_code keeps its value.
C15_EmptyResponseIsGenerationError ==
    [][(/\ Responded
        /\ Len(completion'.choices) > 0
        /\ PyStrip(completion'.choices[1]) = <<>>) =>
          /\ Len(messages') = Len(messages) + 1
          /\ ~messages'[Len(messages')].is_user
          /\ messages'[Len(messages')].text # completion'.choices[1]
          /\ ui_pc' = "idle"
          /\ frames' = frames
          /\ current_code' = current_code]_vars

IsFailure(result) == result.type = "dict" /\ "error" \in DOMAIN result.items

\* a result with a fragment and no "error" key: lines 750-763
IsSuccess(result) ==
    /\ result.type = "dict"
    /\ "error" \notin DOMAIN result.items
    /\ "tikz_code" \in DOMAIN result.items

\* the entries handed to update_ui_with_result in this step
Handed == SubSeq(dispatched', Len(dispatched) + 1, Len(dispatched'))

\* C17: a poll that hands over Failure entries only adds one error message per
\* entry, leaves the loading indicator stopped and changes nothing else:
\* current_code keeps its value, no render thread is started, the canvas is not
\* touched.
C17_FailureEntryOnlyReports ==
    [][(Polled /\ Handed # <<>> /\ \A i \in DOMAIN Handed : IsFailure(Handed[i])) =>
          /\ Len(messages') = Len(messages) + Len(Handed)
          /\ SubSeq(messages', 1, Len(messages)) = messages
          /\ \A i \in DOMAIN Handed :
                messages'[Len(messages) + i] =
                    AssistantBubble(ERR_PREFIX \o Handed[i].items.error)
          /\ ~running'
          /\ UNCHANGED <<current_code, frames, canvas, code_text, temp_dirs>>]_vars

\* C17 witness: with a fragment current and its image shown, a poll has handed
\* over one Failure entry: its message ends the chat, no render thread exists,
\* fragment and image are still there.
C17_Witness ==
    /\ Len(dispatched) = 1
    /\ IsFailure(dispatched[1])
    /\ messages[Len(messages)] = AssistantBubble(ERR_PREFIX \o QUEUE_ERROR)
    /\ current_code # <<>>
    /\ canvas # <<>>
    /\ WorkerThreads = {}
    /\ ~running

\* C18: in one poll every Success entry handed over starts one render thread
\* for its fragment, in queue order, and nothing else starts one; current_code
\* becomes the fragment of the last Success entry handed over.
C18_SuccessEntryStartsOneRender ==
    [][Polled =>
          LET s == SelectSeq(Handed, IsSuccess)
              n == Cardinality(DOMAIN frames)
          IN  /\ DOMAIN frames' = DOMAIN frames \cup (n..(n + Len(s) - 1))
              /\ \A t \in DOMAIN frames : frames'[t] = frames[t]
              /\ \A j \in 1..Len(s) :
                    /\ frames'[n + j - 1].pc = "start"
                    /\ frames'[n + j - 1].tikz_code = s[j].items.tikz_code
              /\ current_code' = IF s = <<>> THEN current_code
                                 ELSE s[Len(s)].items.tikz_code]_vars

\* C18 witness: one poll has handed over two Success entries with different
\* fragments: two render threads wait to run, the first for the first fragment,
\* and current_code is the second fragment.
C18_Witness ==
    /\ poll_epoch = 1
    /\ Len(dispatched) = 2
    /\ IsSuccess(dispatched[1]) /\ IsSuccess(dispatched[2])
    /\ dispatched[1].items.tikz_code # dispatched[2].items.tikz_code
    /\ WorkerThreads = {1, 2}
    /\ \A t \in {1, 2} :
          /\ frames[t].pc = "start"
          /\ frames[t].tikz_code = dispatched[t].items.tikz_code
    /\ current_code = dispatched[2].items.tikz_code

\* C19: every render thread started runs to its end; a render that ends with
\* an image puts it on the canvas whatever the other renders have done, and
\* only such a step changes the canvas: the image shown is that of the render
\* that produced one last.
C19_RendersCompleteLastApplied ==
    /\ \A t \in 1..MaxJobs :
          (t \in DOMAIN frames /\ frames[t].pc = "start")
              ~> (t \in DOMAIN frames /\ frames[t].pc = "done")
    /\ [][\A t \in WorkerThreads :
             (RenderStep(t) /\ frames'[t].ret = "True") =>
                 canvas' = <<frames'[t].tikz_content>>]_vars
    /\ [][canvas' # canvas =>
             \E t \in Threads : RenderStep(t) /\ frames'[t].ret = "True"]_vars

\* C19 witness: two renders of different fragments have both ended with an
\* image, and the image shown is that of the thread started first: it ended last.
C19_Witness ==
    /\ WorkerThreads = {1, 2}
    /\ frames[1].ret = "True" /\ frames[2].ret = "True"
    /\ frames[1].tikz_content # frames[2].tikz_content
    /\ canvas = <<frames[1].tikz_content>>

\* a step of submit_input that goes on to the completion call
GenerationStarts == submit_input /\ ui_pc' = "chat_completion"

\* C20: while a generation is in flight (its loading indicator running) a
\* submission with non-empty text can still start a generation of its own.
C20_NoLimitOnGenerations ==
    (running /\ n_jobs < MaxJobs) => ENABLED GenerationStarts

\* C21: an accepted submission leaves the loading indicator stopped however
\* generation and response handling end: whenever the handler returns the
\* indicator is stopped, it is never running while the interactive thread is
\* idle, and a running indicator is always stopped again.
C21_IndicatorStoppedAfterSubmission ==
    /\ [][(ui_pc # "idle" /\ ui_pc' = "idle") => ~running']_vars
    /\ [](ui_pc = "idle" => ~running)
    /\ running ~> ~running

\* C21 witness: two submissions have ended, one with a failed render and the
\* later one with a completion call that raised, and the indicator is stopped.
C21_Witness ==
    /\ ui_pc = "idle"
    /\ ~running
    /\ completion.raised
    /\ frames[MainThread].ret = "False"
    /\ Len(SelectSeq(messages, LAMBDA m : m.is_user)) = 2

\* C22: with an entry text that is empty, all whitespace or the placeholder,
\* or with the loading indicator running, no run of submit_input changes
\* anything: no message, no generation, indicator and current_code as before.
C22_RejectedSubmissionIsNoOp ==
    \A raw \in Inputs :
        (running \/ PyStrip(raw) = <<>> \/ PyStrip(raw) = PLACEHOLDER) =>
            ~ENABLED (ui_pc = "idle" /\ submit_input_of(raw) /\ vars' # vars)

\* C22 witness: with a fragment current and a conversation in the chat, the
\* handler can run with the placeholder in the entry.
C22_Witness ==
    /\ current_code # <<>>
    /\ Len(messages) > 2
    /\ n_jobs < MaxJobs
    /\ ENABLED (ui_pc = "idle" /\ submit_input_of(PLACEHOLDER))

\* C23: exactly one check_results callback is pending in every reachable state:
\* a poll registers exactly one successor, and no other step registers or
\* removes one.
C23_ExactlyOnePollPending ==
    /\ [](pending_polls = 1)
    /\ [][pending_polls' = pending_polls]_vars

\* C23 witness: polls have run, among them one that handed an entry over, a
\* submission has ended and a render thread has ended, and one poll is pending.
C23_Witness ==
    /\ pending_polls = 1
    /\ Len(dispatched) = 1
    /\ Len(messages) > 2
    /\ n_jobs = MaxJobs
    /\ \E t \in WorkerThreads : frames[t].pc = "done"

\* a step in which an update_preview callback runs: only it lowers the count
PreviewFired == preview_timers' < preview_timers

\* C24: at most one preview timer is pending, and the timer that fires after a
\* burst of edits starts exactly one render, of the editor text at that time.
C24_DebouncedEditStartsOneRender ==
    [][/\ preview_timers' <= 1
       /\ PreviewFired =>
             LET t == Cardinality(DOMAIN frames)
             IN  /\ DOMAIN frames' = DOMAIN frames \cup {t}
                 /\ frames'[t].pc = "start"
                 /\ frames'[t].tikz_code = code_text]_vars

\* C25: on the process_response path current_code becomes the extracted
\* fragment when render_tikz returns True and only then: it keeps its value when
\* the render fails, when the response has no fenced block and when processing
\* the response raises.
C25_CurrentCodeOnlyAfterRenderSuccess ==
    [][/\ (ui_pc = "render_tikz" /\ ui_pc' = "idle") =>
             current_code' = IF frames'[MainThread].ret = "True"
                             THEN frames'[MainThread].tikz_code
                             ELSE current_code
       /\ ui_pc = "chat_completion" => current_code' = current_code]_vars

\* C25 witness: after a response whose render succeeded, the render of a later
\* response with another fragment has failed, and current_code is still the
\* earlier fragment.
C25_Witness ==
    /\ ui_pc = "idle"
    /\ WorkerThreads = {}
    /\ frames[MainThread].ret = "False"
    /\ current_code # <<>>
    /\ current_code # frames[MainThread].tikz_code

\* C26: current_code changes only in a poll that hands over a Success entry (to
\* the fragment of such an entry) and when render_tikz returns True to
\* process_response (to the fragment rendered): not by edits, preview timers,
\* renders in threads or view toggling.
C26_OnlyGenerationResultsWriteCurrentCode ==
    [][current_code' # current_code =>
          \/ /\ Polled
             /\ \E i \in DOMAIN Handed :
                   IsSuccess(Handed[i]) /\ current_code' = Handed[i].items.tikz_code
          \/ /\ ui_pc = "render_tikz"
             /\ RenderStep(MainThread)
             /\ frames'[MainThread].ret = "True"
             /\ current_code' = frames'[MainThread].tikz_code]_vars

\* C26 witness: a Success entry has set current_code; since then the view was
\* switched to the editor, the text was edited, the preview timer has fired and
\* the render thread has ended with an image; current_code is still the
\* fragment of the entry.
C26_Witness ==
    /\ Len(dispatched) = 1
    /\ IsSuccess(dispatched[1])
    /\ current_code = dispatched[1].items.tikz_code
    /\ ~show_chat
    /\ code_text = current_code \o EDIT_KEY
    /\ update_timer = "id"
    /\ preview_timers = 0
    /\ \E t \in WorkerThreads : frames[t].ret = "True"

\* C27: at most one draw_spinner callback is pending in every reachable state.
C27_OneSpinnerChain == spinner_pending <= 1
====
